---- MODULE Spec2Model ----
(***************************************************************************)
(* Model of the proxy synthetic-check probe: the outcome classifier         *)
(* (request.CategorizeError), the per-attempt recorder (request.Make), the  *)
(* label schema (metrics.collectLabelKeys, metrics.New), the transport      *)
(* builder (proxy.CreateTransport, proxy.MaskAuth, with net/url's Parse)    *)
(* and the per-proxy runner loop (runner.Run, main).                        *)
(*                                                                          *)
(* Go strings whose bytes the code inspects (error texts, label keys, proxy *)
(* strings) are                                                             *)
(* sequences of one-character strings; strings the code only passes along   *)
(* (label values, categories, proxy ids) are TLA+ strings.                  *)
(***************************************************************************)
EXTENDS Integers, Sequences, FiniteSets, TLC

VARIABLES
    catErr,          \* CategorizeError: the err argument
    catResult,       \* CategorizeError: <<errorType, httpStatusCode>>, or Pending before the call
    keyProxies,      \* collectLabelKeys: the proxies argument
    keyResult,       \* collectLabelKeys: the returned keys, or Pending before the call
    cfg,             \* main: the loaded configuration
    process,         \* "running", "exited" (log.Fatalf) or "panicked"
    mainPc,          \* main: "New", "Start", "Select", or "Panicked" (inside metrics.New)
    nextProxy,       \* main: the index i+1 of the next proxy its loop starts
    LabelKeys,       \* Metrics.LabelKeys
    requestsLabels,  \* label names registered for requests_total
    durationLabels,  \* label names registered for request_duration_seconds
    RequestsTotal,   \* requests_total: label values -> count
    RequestDuration, \* request_duration_seconds: label values -> number of observations
    Buckets,         \* request_duration_seconds: the histogram buckets given to metrics.New
    runner,          \* per proxy: the position of its runner.Run and its counters
    attempts,        \* the request.Make goroutines, in the order they were started
    argProtocol,     \* CreateTransport, MaskAuth: the protocol argument
    argProxyString,  \* CreateTransport, MaskAuth: the proxyString argument
    transportResult, \* CreateTransport: <<transport, err>>, or Pending before the call
    maskResult       \* MaskAuth: the returned string, or Pending before the call

catVars == <<catErr, catResult>>
keyVars == <<keyProxies, keyResult>>
metricVars ==
    <<LabelKeys, requestsLabels, durationLabels, RequestsTotal, RequestDuration, Buckets>>
mainVars == <<cfg, process, mainPc, nextProxy, runner, attempts>>
proxyVars == <<argProtocol, argProxyString, transportResult, maskResult>>
vars == <<catVars, keyVars, metricVars, mainVars, proxyVars>>

Pending == <<"pending">>

(***************************************************************************)
(* Bounds                                                                   *)
(***************************************************************************)
\* An error text is built from at most MaxFrags fragments joined by ": ".
MaxFrags == 2
\* collectLabelKeys is applied to lists of at most MaxProxies proxies.
MaxProxies == 2
\* At most MaxAttempts request.Make goroutines are started in a run.
MaxAttempts == 2

(***************************************************************************)
(* strings                                                                  *)
(***************************************************************************)
UpperLetters == <<"A","B","C","D","E","F","G","H","I","J","K","L","M",
                  "N","O","P","Q","R","S","T","U","V","W","X","Y","Z">>
LowerLetters == <<"a","b","c","d","e","f","g","h","i","j","k","l","m",
                  "n","o","p","q","r","s","t","u","v","w","x","y","z">>

\* unicode.ToLower on one ASCII byte
ToLowerChar(c) ==
    IF \E i \in 1..Len(UpperLetters) : UpperLetters[i] = c
    THEN LowerLetters[CHOOSE i \in 1..Len(UpperLetters) : UpperLetters[i] = c]
    ELSE c

\* strings.ToLower replaced by the identity: the case-sensitive slip
ToLower_CaseSensitive(s) == s

\* strings.ToLower
RECURSIVE ToLower(_)
ToLower(s) == IF s = <<>> THEN <<>> ELSE <<ToLowerChar(Head(s))>> \o ToLower(Tail(s))

\* strings.Contains(s, substr)
Contains(s, substr) ==
    \E i \in 1..(Len(s) - Len(substr) + 1) : SubSeq(s, i, i + Len(substr) - 1) = substr

\* strconv.Quote for text without quotes, backslashes or control bytes
Quote(s) == <<"\"">> \o s \o <<"\"">>

\* The substrings CategorizeError looks for.

S_timeout == <<"t", "i", "m", "e", "o", "u", "t">>
S_deadline_exceeded == <<"d", "e", "a", "d", "l", "i", "n", "e", " ", "e", "x", "c", "e", "e", "d", "e", "d">>
S_io_timeout == <<"i", "/", "o", " ", "t", "i", "m", "e", "o", "u", "t">>
S_no_such_host == <<"n", "o", " ", "s", "u", "c", "h", " ", "h", "o", "s", "t">>
S_dns == <<"d", "n", "s">>
S_name_resolution == <<"n", "a", "m", "e", " ", "r", "e", "s", "o", "l", "u", "t", "i", "o", "n">>
S_eof == <<"e", "o", "f">>
S_connection_refused == <<"c", "o", "n", "n", "e", "c", "t", "i", "o", "n", " ", "r", "e", "f", "u", "s", "e", "d">>
S_connection_reset == <<"c", "o", "n", "n", "e", "c", "t", "i", "o", "n", " ", "r", "e", "s", "e", "t">>
S_broken_pipe == <<"b", "r", "o", "k", "e", "n", " ", "p", "i", "p", "e">>
S_network_is_unreachable == <<"n", "e", "t", "w", "o", "r", "k", " ", "i", "s", " ", "u", "n", "r", "e", "a", "c", "h", "a", "b", "l", "e">>

\* Fragments of error texts, as the Go runtime, the tests and the README spell them.
F_timeout == <<"t", "i", "m", "e", "o", "u", "t">>  \* "timeout"
F_io_Timeout == <<"i", "/", "o", " ", "T", "i", "m", "e", "o", "u", "t">>  \* "i/o Timeout"
F_deadline == <<"c", "o", "n", "t", "e", "x", "t", " ", "d", "e", "a", "d", "l", "i", "n", "e", " ", "e", "x", "c", "e", "e", "d", "e", "d">>  \* "context deadline exceeded"
F_no_such_host == <<"n", "o", " ", "s", "u", "c", "h", " ", "h", "o", "s", "t">>  \* "no such host"
F_DNS == <<"D", "N", "S", " ", "l", "o", "o", "k", "u", "p", " ", "f", "a", "i", "l", "e", "d">>  \* "DNS lookup failed"
F_name_resolution == <<"n", "a", "m", "e", " ", "r", "e", "s", "o", "l", "u", "t", "i", "o", "n", " ", "f", "a", "i", "l", "e", "d">>  \* "name resolution failed"
F_EOF == <<"E", "O", "F">>  \* "EOF"
F_unexpected_eof == <<"u", "n", "e", "x", "p", "e", "c", "t", "e", "d", " ", "e", "o", "f">>  \* "unexpected eof"
F_refused == <<"c", "o", "n", "n", "e", "c", "t", "i", "o", "n", " ", "r", "e", "f", "u", "s", "e", "d">>  \* "connection refused"
F_Reset == <<"C", "o", "n", "n", "e", "c", "t", "i", "o", "n", " ", "R", "e", "s", "e", "t", " ", "b", "y", " ", "p", "e", "e", "r">>  \* "Connection Reset by peer"
F_broken_pipe == <<"b", "r", "o", "k", "e", "n", " ", "p", "i", "p", "e">>  \* "broken pipe"
F_unreachable == <<"n", "e", "t", "w", "o", "r", "k", " ", "i", "s", " ", "u", "n", "r", "e", "a", "c", "h", "a", "b", "l", "e">>  \* "network is unreachable"
F_network_error == <<"n", "e", "t", "w", "o", "r", "k", " ", "e", "r", "r", "o", "r">>  \* "network error"
F_unknown == <<"s", "o", "m", "e", " ", "u", "n", "k", "n", "o", "w", "n", " ", "e", "r", "r", "o", "r">>  \* "some unknown error"
F_dial_tcp == <<"d", "i", "a", "l", " ", "t", "c", "p">>  \* "dial tcp"
Fragments == {F_timeout, F_io_Timeout, F_deadline, F_no_such_host, F_DNS, F_name_resolution, F_EOF, F_unexpected_eof, F_refused, F_Reset, F_broken_pipe, F_unreachable, F_network_error, F_unknown, F_dial_tcp}

Sep == <<":", " ">>
Space == <<" ">>
NilText == <<"%", "!", "s", "(", "<", "n", "i", "l", ">", ")">>  \* what fmt prints for a nil error under %s
OpGet == <<"G", "e", "t">>
URL_example == <<"h", "t", "t", "p", "s", ":", "/", "/", "e", "x", "a", "m", "p", "l", "e", ".", "c", "o", "m">>  \* https://example.com
URL_dns == <<"h", "t", "t", "p", ":", "/", "/", "d", "n", "s", ".", "e", "x", "a", "m", "p", "l", "e">>  \* http://dns.example
URL_timeout == <<"h", "t", "t", "p", ":", "/", "/", "t", "i", "m", "e", "o", "u", "t", ".", "t", "e", "s", "t", "/", "e", "o", "f">>  \* http://timeout.test/eof

(***************************************************************************)
(* errors                                                                   *)
(*   errorString : an error that is neither a net.Error nor a *url.Error    *)
(*   netError    : an error with Timeout() and Temporary() (net.Error)      *)
(*   EOF         : the io.EOF sentinel                                      *)
(*   urlError    : *url.Error{Op, URL, Err}; it has Timeout() and           *)
(*                 Temporary(), so it is a net.Error too                    *)
(***************************************************************************)
NilErr == [type |-> "nil"]
IoEOF == [type |-> "EOF"]
ErrorString(msg) == [type |-> "errorString", msg |-> msg]
NetError(msg) == [type |-> "netError", msg |-> msg]
UrlError(op, url, inner) == [type |-> "urlError", Op |-> op, URL |-> url, Err |-> inner]

\* err.Error()
RECURSIVE ErrorText(_)
ErrorText(err) ==
    CASE err.type = "nil" -> NilText
      [] err.type = "EOF" -> F_EOF
      [] err.type = "urlError" ->
            err.Op \o Space \o Quote(err.URL) \o Sep \o ErrorText(err.Err)
      [] OTHER -> err.msg

\* err.(*url.Error)
IsUrlError(err) == err.type = "urlError"

\* err.(net.Error)
IsNetError(err) == err.type \in {"netError", "urlError"}

\* the textual rules with the dns rule moved ahead of the timeout rule
TextRules_DnsFirst(err) ==
    LET errLower == ToLower(ErrorText(err))
    IN  IF \/ Contains(errLower, S_no_such_host)
           \/ Contains(errLower, S_dns)
           \/ Contains(errLower, S_name_resolution)
        THEN "dns_error"
        ELSE IF \/ Contains(errLower, S_timeout)
                \/ Contains(errLower, S_deadline_exceeded)
                \/ Contains(errLower, S_io_timeout)
        THEN "timeout"
        ELSE IF err = IoEOF \/ Contains(errLower, S_eof)
        THEN "connection_error"
        ELSE IF \/ Contains(errLower, S_connection_refused)
                \/ Contains(errLower, S_connection_reset)
                \/ Contains(errLower, S_broken_pipe)
                \/ Contains(errLower, S_network_is_unreachable)
        THEN "connection_error"
        ELSE ""

\* the textual rules with the eof rule moved ahead of the dns rule
TextRules_EofBeforeDns(err) ==
    LET errLower == ToLower(ErrorText(err))
    IN  IF \/ Contains(errLower, S_timeout)
           \/ Contains(errLower, S_deadline_exceeded)
           \/ Contains(errLower, S_io_timeout)
        THEN "timeout"
        ELSE IF err = IoEOF \/ Contains(errLower, S_eof)
        THEN "connection_error"
        ELSE IF \/ Contains(errLower, S_no_such_host)
                \/ Contains(errLower, S_dns)
                \/ Contains(errLower, S_name_resolution)
        THEN "dns_error"
        ELSE IF \/ Contains(errLower, S_connection_refused)
                \/ Contains(errLower, S_connection_reset)
                \/ Contains(errLower, S_broken_pipe)
                \/ Contains(errLower, S_network_is_unreachable)
        THEN "connection_error"
        ELSE ""

\* the textual rules with a category of its own for the EOF rule
TextRules_EofCategory(err) ==
    LET errLower == ToLower(ErrorText(err))
    IN  IF \/ Contains(errLower, S_timeout)
           \/ Contains(errLower, S_deadline_exceeded)
           \/ Contains(errLower, S_io_timeout)
        THEN "timeout"
        ELSE IF \/ Contains(errLower, S_no_such_host)
                \/ Contains(errLower, S_dns)
                \/ Contains(errLower, S_name_resolution)
        THEN "dns_error"
        ELSE IF err = IoEOF \/ Contains(errLower, S_eof)
        THEN "eof_error"
        ELSE IF \/ Contains(errLower, S_connection_refused)
                \/ Contains(errLower, S_connection_reset)
                \/ Contains(errLower, S_broken_pipe)
                \/ Contains(errLower, S_network_is_unreachable)
        THEN "connection_error"
        ELSE ""

\* CategorizeError, the textual rules: the category of the first rule that
\* matches the lower-cased text, "" when none does.
TextRules(err) ==
    LET errStr == ErrorText(err)
        errLower == ToLower(errStr)
    IN  IF \/ Contains(errLower, S_timeout)
           \/ Contains(errLower, S_deadline_exceeded)
           \/ Contains(errLower, S_io_timeout)
        THEN "timeout"
        ELSE IF \/ Contains(errLower, S_no_such_host)
                \/ Contains(errLower, S_dns)
                \/ Contains(errLower, S_name_resolution)
        THEN "dns_error"
        ELSE IF err = IoEOF \/ Contains(errLower, S_eof)
        THEN "connection_error"
        ELSE IF \/ Contains(errLower, S_connection_refused)
                \/ Contains(errLower, S_connection_reset)
                \/ Contains(errLower, S_broken_pipe)
                \/ Contains(errLower, S_network_is_unreachable)
        THEN "connection_error"
        ELSE ""

\* CategorizeError(err): <<errorType, httpStatusCode>>
RECURSIVE CategorizeError(_)
CategorizeError(err) ==
    IF err = NilErr THEN <<"", "">>
    ELSE LET t == TextRules(err)
             errType == CategorizeError(err.Err)[1]
         IN  IF t # "" THEN <<t, "">>
             ELSE IF IsUrlError(err) /\ err.Err # NilErr /\ errType # ""
             THEN <<errType, "">>
             ELSE IF IsNetError(err) THEN <<"connection_error", "">>
             ELSE <<"unknown_error", "">>

(***************************************************************************)
(* Inputs of CategorizeError                                                *)
(***************************************************************************)
RECURSIVE Texts(_)
Texts(n) ==
    IF n = 0 THEN {}
    ELSE Fragments \cup {t \o Sep \o f : t \in Texts(n - 1), f \in Fragments}

Ops == {OpGet}
URLs == {URL_example, URL_dns, URL_timeout}

LeafErrors ==
    {IoEOF} \cup {ErrorString(m) : m \in Texts(MaxFrags)}
            \cup {NetError(m) : m \in Texts(MaxFrags)}

ErrorInputs ==
    {NilErr} \cup LeafErrors
             \cup {UrlError(op, u, e) : op \in Ops, u \in URLs, e \in LeafErrors \cup {NilErr}}

(***************************************************************************)
(* config.Proxy and its label map                                           *)
(***************************************************************************)
\* A Go map[string]string: nil, or a function from keys to values.  Ranging
\* over a nil map visits nothing and a lookup in it finds nothing.
NilMap == [isNil |-> TRUE, kv |-> <<>>]
MakeMap(f) == [isNil |-> FALSE, kv |-> f]
MapKeys(m) == IF m.isNil THEN {} ELSE DOMAIN m.kv
MapHas(m, key) == key \in MapKeys(m)
MapGet(m, key) == m.kv[key]

Proxy(protocol, proxy, labels) ==
    [Protocol |-> protocol, Proxy |-> proxy, Labels |-> labels]

\* The bytes of the strings used as label keys, protocols and proxy strings.
Chars(s) ==
    CASE s = "Zone" -> <<"Z", "o", "n", "e">>
      [] s = "name" -> <<"n", "a", "m", "e">>
      [] s = "provider" -> <<"p", "r", "o", "v", "i", "d", "e", "r">>
      [] s = "region" -> <<"r", "e", "g", "i", "o", "n">>
      [] s = "tier" -> <<"t", "i", "e", "r">>
      [] s = "status" -> <<"s", "t", "a", "t", "u", "s">>
      [] s = "proxy_id" -> <<"p", "r", "o", "x", "y", "_", "i", "d">>
      [] s = "socks5" -> <<"s", "o", "c", "k", "s", "5">>
      [] s = "SOCKS5" -> <<"S", "O", "C", "K", "S", "5">>
      [] s = "http" -> <<"h", "t", "t", "p">>
      [] s = "ftp" -> <<"f", "t", "p">>
      [] s = "" -> <<>>
      [] s = "proxy1.example.com:1080" -> <<"p", "r", "o", "x", "y", "1", ".", "e", "x", "a", "m", "p", "l", "e", ".", "c", "o", "m", ":", "1", "0", "8", "0">>
      [] s = "user:pass@proxy2.example.com:8080" -> <<"u", "s", "e", "r", ":", "p", "a", "s", "s", "@", "p", "r", "o", "x", "y", "2", ".", "e", "x", "a", "m", "p", "l", "e", ".", "c", "o", "m", ":", "8", "0", "8", "0">>
      [] s = "proxy3.example.com:1080" -> <<"p", "r", "o", "x", "y", "3", ".", "e", "x", "a", "m", "p", "l", "e", ".", "c", "o", "m", ":", "1", "0", "8", "0">>
      [] s = "proxy4.example.com:21" -> <<"p", "r", "o", "x", "y", "4", ".", "e", "x", "a", "m", "p", "l", "e", ".", "c", "o", "m", ":", "2", "1">>
      [] s = "Http" -> <<"H", "t", "t", "p">>
      [] s = "https" -> <<"h", "t", "t", "p", "s">>
      [] s = "5ocks" -> <<"5", "o", "c", "k", "s">>
      [] s = "user" -> <<"u", "s", "e", "r">>
      [] s = "pass" -> <<"p", "a", "s", "s">>
      [] s = "p@ss:w0rd" -> <<"p", "@", "s", "s", ":", "w", "0", "r", "d">>
      [] s = "pa/ss" -> <<"p", "a", "/", "s", "s">>
      [] s = "pa ss" -> <<"p", "a", " ", "s", "s">>
      [] s = "p%40ss" -> <<"p", "%", "4", "0", "s", "s">>
      [] s = "1080" -> <<"1", "0", "8", "0">>
      [] s = "proxy.example.com:1080" -> <<"p", "r", "o", "x", "y", ".", "e", "x", "a", "m", "p", "l", "e", ".", "c", "o", "m", ":", "1", "0", "8", "0">>
      [] s = "127.0.0.1:8080" -> <<"1", "2", "7", ".", "0", ".", "0", ".", "1", ":", "8", "0", "8", "0">>
      [] s = "[::1]:1080" -> <<"[", ":", ":", "1", "]", ":", "1", "0", "8", "0">>
      [] s = "[fe80::1%25eth0]:1080" -> <<"[", "f", "e", "8", "0", ":", ":", "1", "%", "2", "5", "e", "t", "h", "0", "]", ":", "1", "0", "8", "0">>
      [] s = "proxy.example.com" -> <<"p", "r", "o", "x", "y", ".", "e", "x", "a", "m", "p", "l", "e", ".", "c", "o", "m">>
      [] s = "proxy.example.com:8o80" -> <<"p", "r", "o", "x", "y", ".", "e", "x", "a", "m", "p", "l", "e", ".", "c", "o", "m", ":", "8", "o", "8", "0">>
      [] s = "h%25x:80" -> <<"h", "%", "2", "5", "x", ":", "8", "0">>
      [] s = "/status" -> <<"/", "s", "t", "a", "t", "u", "s">>
      [] s = "invalid://url" -> <<"i", "n", "v", "a", "l", "i", "d", ":", "/", "/", "u", "r", "l">>

\* The bytes that occur, in ascending byte value.
AsciiOrder ==
    <<" ", "!", "\"", "%", "(", ")", "-", ".", "/",
      "0", "1", "2", "3", "4", "5", "6", "7", "8", "9", ":", "<", ">", "@",
      "A", "B", "C", "D", "E", "F", "G", "H", "I", "J", "K", "L", "M",
      "N", "O", "P", "Q", "R", "S", "T", "U", "V", "W", "X", "Y", "Z", "_",
      "a", "b", "c", "d", "e", "f", "g", "h", "i", "j", "k", "l", "m",
      "n", "o", "p", "q", "r", "s", "t", "u", "v", "w", "x", "y", "z">>

Ord(c) == CHOOSE i \in 1..Len(AsciiOrder) : AsciiOrder[i] = c

\* Go's a < b on strings: bytewise lexicographic order
StringLess(a, b) ==
    LET x == Chars(a)
        y == Chars(b)
    IN  \E i \in 1..(Len(x) + 1) :
            /\ \A j \in 1..(i - 1) : j <= Len(y) /\ x[j] = y[j]
            /\ i <= Len(y)
            /\ (i > Len(x) \/ Ord(x[i]) < Ord(y[i]))

\* sort.Strings left out: the keys stay in map-iteration order
SortStrings_Skipped(keys) == keys

RECURSIVE InsertSorted(_, _)
InsertSorted(sorted, k) ==
    IF sorted = <<>> THEN <<k>>
    ELSE IF StringLess(k, Head(sorted)) THEN <<k>> \o sorted
    ELSE <<Head(sorted)>> \o InsertSorted(Tail(sorted), k)

\* sort.Strings
RECURSIVE SortStrings(_)
SortStrings(keys) ==
    IF keys = <<>> THEN <<>>
    ELSE InsertSorted(SortStrings(Tail(keys)), Head(keys))

\* The orders in which a range over a map with key set S may visit it.
IterationOrders(S) ==
    {o \in [1..Cardinality(S) -> S] : \A k \in S : \E i \in 1..Cardinality(S) : o[i] = k}

\* collectLabelKeys, first loop: the set of keys of all proxies' label maps
KeySetOf(proxies) == UNION {MapKeys(proxies[i].Labels) : i \in 1..Len(proxies)}

\* collectLabelKeys(proxies).  The second loop appends the keys of keySet in
\* map-iteration order, which Go leaves unspecified: iter is that order, one
\* of IterationOrders(KeySetOf(proxies)).  The sort follows.
collectLabelKeys(proxies, iter) ==
    LET keySet == KeySetOf(proxies)
        keys == [i \in 1..Cardinality(keySet) |-> iter[i]]
    IN  SortStrings(keys)

(***************************************************************************)
(* Inputs of collectLabelKeys                                               *)
(***************************************************************************)
LabelMaps ==
    { NilMap,
      MakeMap(<<>>),
      MakeMap([k \in {"region"} |-> "us"]),
      MakeMap([k \in {"region", "tier"} |-> IF k = "region" THEN "eu" ELSE "gold"]),
      MakeMap([k \in {"name", "region"} |-> IF k = "name" THEN "wifi" ELSE "us"]),
      MakeMap([k \in {"name", "provider", "region"} |->
                 IF k = "name" THEN "mobile" ELSE IF k = "region" THEN "eu" ELSE "provider-a"]),
      MakeMap([k \in {"Zone", "name"} |-> IF k = "Zone" THEN "a" ELSE "another"]) }

RECURSIVE ListsUpTo(_, _)
ListsUpTo(S, n) ==
    IF n = 0 THEN {<<>>}
    ELSE ListsUpTo(S, n - 1) \cup {Append(l, x) : l \in ListsUpTo(S, n - 1), x \in S}

KeyInputs ==
    {l \in ListsUpTo({Proxy("socks5", "proxy.example.com:1080", m) : m \in LabelMaps}, MaxProxies) :
        l # <<>>}

(***************************************************************************)
(* The parts of the state a specification does not use                      *)
(***************************************************************************)
Idle == <<"idle">>
CatIdle == catErr = NilErr /\ catResult = Idle
KeysIdle == keyProxies = <<>> /\ keyResult = Idle
ProxyIdle ==
    /\ argProtocol = <<>>
    /\ argProxyString = <<>>
    /\ transportResult = Idle
    /\ maskResult = Idle
MainIdle ==
    /\ cfg = Idle
    /\ process = "idle"
    /\ mainPc = "idle"
    /\ nextProxy = 0
    /\ LabelKeys = <<>>
    /\ requestsLabels = <<>>
    /\ durationLabels = <<>>
    /\ RequestsTotal = <<>>
    /\ RequestDuration = <<>>
    /\ Buckets = <<>>
    /\ runner = <<>>
    /\ attempts = <<>>

(***************************************************************************)
(* metrics.New                                                              *)
(***************************************************************************)
\* requestsLabels of metrics.New
RequestsLabelNames(labelKeys) ==
    <<"proxy_id", "proxy_protocol">> \o labelKeys \o <<"status", "error">>

\* durationLabels of metrics.New
DurationLabelNames(labelKeys) ==
    <<"proxy_id", "proxy_protocol">> \o labelKeys

\* prometheus.MustRegister panics on a collector whose descriptor is invalid;
\* NewDesc marks a descriptor invalid when a label name occurs twice
HasDuplicates(names) == \E i, j \in DOMAIN names : i # j /\ names[i] = names[j]

(***************************************************************************)
(* request.Make                                                             *)
(***************************************************************************)
Digits == <<"0", "1", "2", "3", "4", "5", "6", "7", "8", "9">>

\* strconv.Itoa for n >= 0
RECURSIVE Itoa(_)
Itoa(n) == IF n < 10 THEN Digits[n + 1] ELSE Itoa(n \div 10) \o Digits[(n % 10) + 1]

\* the loop appending in front: the values come out in reverse key order
SchemaValues_Reversed(labelKeys, labels) ==
    [i \in 1..Len(labelKeys) |->
        IF MapHas(labels, labelKeys[Len(labelKeys) + 1 - i])
        THEN MapGet(labels, labelKeys[Len(labelKeys) + 1 - i])
        ELSE ""]

\* the loop with the else branch lost: keys the proxy lacks add no value
SchemaValues_SkipMissing(labelKeys, labels) ==
    SelectSeq([i \in 1..Len(labelKeys) |->
                  IF MapHas(labels, labelKeys[i]) THEN MapGet(labels, labelKeys[i]) ELSE "<none>"],
              LAMBDA v : v # "<none>")

\* the loop over m.LabelKeys shared by both closures: the value of each key,
\* "" for a key the proxy does not define
SchemaValues(labelKeys, labels) ==
    [i \in 1..Len(labelKeys) |->
        IF MapHas(labels, labelKeys[i]) THEN MapGet(labels, labelKeys[i]) ELSE ""]

\* buildLabelValues closure of Make
buildLabelValues(proxyID, proxyProtocol, labelKeys, labels, status, errorValue) ==
    <<proxyID, proxyProtocol>> \o SchemaValues(labelKeys, labels) \o <<status, errorValue>>

\* buildDurationLabelValues closure of Make
buildDurationLabelValues(proxyID, proxyProtocol, labelKeys, labels) ==
    <<proxyID, proxyProtocol>> \o SchemaValues(labelKeys, labels)

\* What client.Get and the drain of the body can yield: a transport error,
\* or a response with a status code whose body may fail to read.
Response(err, statusCode, readErr) ==
    [err |-> err, StatusCode |-> statusCode, readErr |-> readErr]

\* Make with status > 400 in place of status >= 400
Outcome_Above400(res) ==
    IF res.err # NilErr THEN <<"error", CategorizeError(res.err)[1]>>
    ELSE IF res.readErr THEN <<"error", "read_error">>
    ELSE IF res.StatusCode > 400 THEN <<"error", "http_" \o Itoa(res.StatusCode)>>
    ELSE <<"success", "">>

\* Make without the check of io.Copy's error
Outcome_ReadErrIgnored(res) ==
    IF res.err # NilErr THEN <<"error", CategorizeError(res.err)[1]>>
    ELSE IF res.StatusCode >= 400 THEN <<"error", "http_" \o Itoa(res.StatusCode)>>
    ELSE <<"success", "">>

\* Make with the status check ahead of the check of io.Copy's error
Outcome_StatusBeforeRead(res) ==
    IF res.err # NilErr THEN <<"error", CategorizeError(res.err)[1]>>
    ELSE IF res.StatusCode >= 400 THEN <<"error", "http_" \o Itoa(res.StatusCode)>>
    ELSE IF res.readErr THEN <<"error", "read_error">>
    ELSE <<"success", "">>

\* Make: the status and error label of an attempt
Outcome(res) ==
    IF res.err # NilErr THEN <<"error", CategorizeError(res.err)[1]>>
    ELSE IF res.readErr THEN <<"error", "read_error">>
    ELSE IF res.StatusCode >= 400 THEN <<"error", "http_" \o Itoa(res.StatusCode)>>
    ELSE <<"success", "">>

\* a recording that counts every sample twice
Recorded_Twice(metric, v) ==
    IF v \in DOMAIN metric THEN [metric EXCEPT ![v] = @ + 2] ELSE (v :> 2) @@ metric

\* a read-modify-write that lost the race: the sample count restarts at 1
Recorded_LostUpdate(metric, v) == (v :> 1) @@ metric

\* CounterVec.WithLabelValues(v...).Inc() and HistogramVec...Observe(d)
Recorded(metric, v) ==
    IF v \in DOMAIN metric THEN [metric EXCEPT ![v] = @ + 1] ELSE (v :> 1) @@ metric

Count(metric, v) == IF v \in DOMAIN metric THEN metric[v] ELSE 0

(***************************************************************************)
(* net/url: url.Parse on text of printable ASCII bytes                      *)
(***************************************************************************)
\* The printable ASCII bytes 0x20..0x7e, in ascending byte value; the
\* backslash and the backquote are named by their hexadecimal values.
Printable ==
    <<" ", "!", "\"", "#", "$", "%", "&", "'", "(", ")", "*", "+", ",", "-", ".", "/",
      "0", "1", "2", "3", "4", "5", "6", "7", "8", "9", ":", ";", "<", "=", ">", "?",
      "@", "A", "B", "C", "D", "E", "F", "G", "H", "I", "J", "K", "L", "M", "N", "O",
      "P", "Q", "R", "S", "T", "U", "V", "W", "X", "Y", "Z", "[", "\\x5c", "]", "^", "_",
      "\\x60", "a", "b", "c", "d", "e", "f", "g", "h", "i", "j", "k", "l", "m", "n", "o",
      "p", "q", "r", "s", "t", "u", "v", "w", "x", "y", "z", "{", "|", "}", "~">>

IsLetter(c) ==
    \E i \in 1..Len(LowerLetters) : c = LowerLetters[i] \/ c = UpperLetters[i]

IsDigit(c) == c \in {"0", "1", "2", "3", "4", "5", "6", "7", "8", "9"}

\* strings.Index(s, substr), counted from 1; 0 when substr is absent
IndexString(s, substr) ==
    LET at(i) == SubSeq(s, i, i + Len(substr) - 1) = substr
        starts == 1..(Len(s) - Len(substr) + 1)
    IN  IF \E i \in starts : at(i)
        THEN CHOOSE i \in starts : at(i) /\ \A j \in 1..(i - 1) : ~at(j)
        ELSE 0

\* strings.Index(s, c) for one byte c
Index(s, c) == IndexString(s, <<c>>)

\* strings.LastIndex(s, c) for one byte c, counted from 1; 0 when c is absent
LastIndex(s, c) ==
    IF \E i \in 1..Len(s) : s[i] = c
    THEN CHOOSE i \in 1..Len(s) : s[i] = c /\ \A j \in (i + 1)..Len(s) : s[j] # c
    ELSE 0

\* strings.HasPrefix(s, prefix)
HasPrefix(s, prefix) ==
    Len(s) >= Len(prefix) /\ SubSeq(s, 1, Len(prefix)) = prefix

\* strings.Count(s, c) for one byte c
RECURSIVE CountByte(_, _)
CountByte(s, c) ==
    IF s = <<>> THEN 0
    ELSE (IF Head(s) = c THEN 1 ELSE 0) + CountByte(Tail(s), c)

\* strings.Cut(s, c) for one byte c: <<before, after>>
Cut(s, c) ==
    LET i == Index(s, c)
    IN  IF i = 0 THEN <<s, <<>>>>
        ELSE <<SubSeq(s, 1, i - 1), SubSeq(s, i + 1, Len(s))>>

\* url.ishex and url.unhex
HexDigits == <<"0", "1", "2", "3", "4", "5", "6", "7", "8", "9",
               "a", "b", "c", "d", "e", "f">>

ishex(c) == \E i \in 1..Len(HexDigits) : HexDigits[i] = ToLowerChar(c)

unhex(c) == (CHOOSE i \in 1..Len(HexDigits) : HexDigits[i] = ToLowerChar(c)) - 1

\* The byte unhex(a)<<4 | unhex(b); a byte outside printable ASCII is named
\* by its hexadecimal value.
HexByte(a, b) ==
    LET code == 16 * unhex(a) + unhex(b)
    IN  IF code >= 32 /\ code <= 126
        THEN Printable[code - 31]
        ELSE "\\x" \o ToLowerChar(a) \o ToLowerChar(b)

\* url.shouldEscape(c, encodeHost) for an ASCII byte
shouldEscapeHost(c) ==
    ~ \/ IsLetter(c)
      \/ IsDigit(c)
      \/ c \in {"!", "$", "&", "'", "(", ")", "*", "+", ",", ";", "=", ":",
                "[", "]", "<", ">", "\""}
      \/ c \in {"-", "_", ".", "~"}

\* url.unescape, first loop: "" or the error found in s
RECURSIVE unescapeCheck(_, _, _)
unescapeCheck(s, mode, i) ==
    IF i > Len(s) THEN ""
    ELSE IF s[i] = "%"
    THEN IF i + 2 > Len(s) \/ ~ishex(s[i + 1]) \/ ~ishex(s[i + 2])
         THEN "invalid URL escape"
         ELSE IF /\ mode = "encodeHost"
                 /\ unhex(s[i + 1]) < 8
                 /\ SubSeq(s, i, i + 2) # <<"%", "2", "5">>
         THEN "invalid URL escape"
         ELSE IF /\ mode = "encodeZone"
                 /\ SubSeq(s, i, i + 2) # <<"%", "2", "5">>
                 /\ HexByte(s[i + 1], s[i + 2]) # " "
                 /\ shouldEscapeHost(HexByte(s[i + 1], s[i + 2]))
         THEN "invalid URL escape"
         ELSE unescapeCheck(s, mode, i + 3)
    ELSE IF mode \in {"encodeHost", "encodeZone"} /\ shouldEscapeHost(s[i])
    THEN "invalid character in host name"
    ELSE unescapeCheck(s, mode, i + 1)

\* url.unescape, second loop: every %XX replaced by its byte
RECURSIVE unescapeDecode(_)
unescapeDecode(s) ==
    IF s = <<>> THEN <<>>
    ELSE IF Head(s) = "%"
    THEN <<HexByte(s[2], s[3])>> \o unescapeDecode(SubSeq(s, 4, Len(s)))
    ELSE <<Head(s)>> \o unescapeDecode(Tail(s))

\* url.unescape(s, mode) for the modes encodeHost, encodeZone,
\* encodeUserPassword, encodePath and encodeFragment
unescape(s, mode) ==
    LET err == unescapeCheck(s, mode, 1)
    IN  IF err # "" THEN [s |-> <<>>, err |-> err]
        ELSE [s |-> unescapeDecode(s), err |-> ""]

\* url.getScheme(rawURL)
RECURSIVE getSchemeFrom(_, _)
getSchemeFrom(rawURL, i) ==
    LET none == [scheme |-> <<>>, path |-> rawURL, err |-> ""]
    IN  IF i > Len(rawURL) THEN none
        ELSE IF IsLetter(rawURL[i]) THEN getSchemeFrom(rawURL, i + 1)
        ELSE IF IsDigit(rawURL[i]) \/ rawURL[i] \in {"+", "-", "."}
        THEN IF i = 1 THEN none ELSE getSchemeFrom(rawURL, i + 1)
        ELSE IF rawURL[i] = ":"
        THEN IF i = 1
             THEN [scheme |-> <<>>, path |-> <<>>, err |-> "missing protocol scheme"]
             ELSE [scheme |-> SubSeq(rawURL, 1, i - 1),
                   path |-> SubSeq(rawURL, i + 1, Len(rawURL)), err |-> ""]
        ELSE none

getScheme(rawURL) == getSchemeFrom(rawURL, 1)

\* url.validOptionalPort(port)
validOptionalPort(port) ==
    \/ port = <<>>
    \/ port[1] = ":" /\ \A i \in 2..Len(port) : IsDigit(port[i])

\* url.parseHost(host)
parseHost(host) ==
    LET close == LastIndex(host, "]")
        colon == LastIndex(host, ":")
        zone == IndexString(SubSeq(host, 1, close - 1), <<"%", "2", "5">>)
        host1 == unescape(SubSeq(host, 1, zone - 1), "encodeHost")
        host2 == unescape(SubSeq(host, zone, close - 1), "encodeZone")
        host3 == unescape(SubSeq(host, close, Len(host)), "encodeHost")
        unescaped == unescape(host, "encodeHost")
        failed(err) == [host |-> <<>>, err |-> err]
    IN  IF HasPrefix(host, <<"[">>)
        THEN IF close = 0 THEN failed("missing ']' in host")
             ELSE IF ~validOptionalPort(SubSeq(host, close + 1, Len(host)))
             THEN failed("invalid port after host")
             ELSE IF zone = 0 THEN [host |-> unescaped.s, err |-> unescaped.err]
             ELSE IF host1.err # "" THEN failed(host1.err)
             ELSE IF host2.err # "" THEN failed(host2.err)
             ELSE IF host3.err # "" THEN failed(host3.err)
             ELSE [host |-> host1.s \o host2.s \o host3.s, err |-> ""]
        ELSE IF colon # 0 /\ ~validOptionalPort(SubSeq(host, colon, Len(host)))
        THEN failed("invalid port after host")
        ELSE [host |-> unescaped.s, err |-> unescaped.err]

\* url.validUserinfo(s)
validUserinfo(s) ==
    \A i \in 1..Len(s) :
        \/ IsLetter(s[i])
        \/ IsDigit(s[i])
        \/ s[i] \in {"-", ".", "_", ":", "~", "!", "$", "&", "'", "(", ")", "*",
                     "+", ",", ";", "=", "%", "@"}

\* *url.Userinfo: nil, url.User(username), url.UserPassword(username, password)
NilUser == [isNil |-> TRUE, username |-> <<>>, password |-> <<>>, passwordSet |-> FALSE]

User(username) ==
    [isNil |-> FALSE, username |-> username, password |-> <<>>, passwordSet |-> FALSE]

UserPassword(username, password) ==
    [isNil |-> FALSE, username |-> username, password |-> password, passwordSet |-> TRUE]

\* url.parseAuthority: the user-info part userinfo, which ends before the
\* "@" at position i, once parseHost has returned h
parseUserinfo(i, userinfo, h) ==
    LET parts == Cut(userinfo, ":")
        username == unescape(parts[1], "encodeUserPassword")
        password == unescape(parts[2], "encodeUserPassword")
        failed(err) == [user |-> NilUser, host |-> <<>>, err |-> err]
    IN  IF h.err # "" THEN failed(h.err)
        ELSE IF i = 0 THEN [user |-> NilUser, host |-> h.host, err |-> ""]
        ELSE IF ~validUserinfo(userinfo) THEN failed("net/url: invalid userinfo")
        ELSE IF username.err # "" THEN failed(username.err)
        ELSE IF Index(userinfo, ":") = 0
        THEN [user |-> User(username.s), host |-> h.host, err |-> ""]
        ELSE IF password.err # "" THEN failed(password.err)
        ELSE [user |-> UserPassword(username.s, password.s), host |-> h.host, err |-> ""]

\* url.parseAuthority(authority)
parseAuthority(authority) ==
    LET i == LastIndex(authority, "@")
    IN  parseUserinfo(i, SubSeq(authority, 1, i - 1),
                      parseHost(SubSeq(authority, i + 1, Len(authority))))

\* *url.URL
URL(scheme, opaque, user, host, path, rawQuery, fragment) ==
    [Scheme |-> scheme, Opaque |-> opaque, User |-> user, Host |-> host,
     Path |-> path, RawQuery |-> rawQuery, Fragment |-> fragment]

NilURL == URL(<<>>, <<>>, NilUser, <<>>, <<>>, <<>>, <<>>)

\* url.parse: url.setPath(rest) once the authority a is parsed, path being
\* the unescaped rest
setPath(scheme, rawQuery, a, path) ==
    IF a.err # "" THEN [url |-> NilURL, err |-> a.err]
    ELSE IF path.err # "" THEN [url |-> NilURL, err |-> path.err]
    ELSE [url |-> URL(scheme, <<>>, a.user, a.host, path.s, rawQuery, <<>>), err |-> ""]

\* url.parse: the authority and the path of a rest that is not opaque
parseHierarchical(scheme, rest, rawQuery) ==
    LET hasAuthority == /\ scheme # <<>> \/ ~HasPrefix(rest, <<"/", "/", "/">>)
                        /\ HasPrefix(rest, <<"/", "/">>)
        after == SubSeq(rest, 3, Len(rest))
        slash == Index(after, "/")
    IN  IF hasAuthority
        THEN setPath(scheme, rawQuery,
                     parseAuthority(IF slash = 0 THEN after ELSE SubSeq(after, 1, slash - 1)),
                     unescape(IF slash = 0 THEN <<>> ELSE SubSeq(after, slash, Len(after)),
                              "encodePath"))
        ELSE setPath(scheme, rawQuery, [user |-> NilUser, host |-> <<>>, err |-> ""],
                     unescape(rest, "encodePath"))

\* url.parse(rawURL, false) once getScheme has returned s
parseAfterScheme(rawURL, s) ==
    LET scheme == ToLower(s.scheme)
        force == /\ s.path # <<>>
                 /\ s.path[Len(s.path)] = "?"
                 /\ CountByte(s.path, "?") = 1
        rest == IF force THEN SubSeq(s.path, 1, Len(s.path) - 1) ELSE Cut(s.path, "?")[1]
        rawQuery == IF force THEN <<>> ELSE Cut(s.path, "?")[2]
    IN  IF rawURL = <<"*">>
        THEN [url |-> URL(<<>>, <<>>, NilUser, <<>>, <<"*">>, <<>>, <<>>), err |-> ""]
        ELSE IF s.err # "" THEN [url |-> NilURL, err |-> s.err]
        ELSE IF ~HasPrefix(rest, <<"/">>) /\ scheme # <<>>
        THEN [url |-> URL(scheme, rest, NilUser, <<>>, <<>>, rawQuery, <<>>), err |-> ""]
        ELSE IF ~HasPrefix(rest, <<"/">>) /\ Index(Cut(rest, "/")[1], ":") # 0
        THEN [url |-> NilURL, err |-> "first path segment in URL cannot contain colon"]
        ELSE parseHierarchical(scheme, rest, rawQuery)

\* url.parse(rawURL, false)
parse(rawURL) == parseAfterScheme(rawURL, getScheme(rawURL))

\* url.Parse: url.setFragment(frag) once parse has returned parsed, fragment
\* being the unescaped frag
setFragment(parsed, fragment) ==
    IF parsed.err # "" THEN parsed
    ELSE IF fragment.err # "" THEN [url |-> NilURL, err |-> fragment.err]
    ELSE [url |-> [parsed.url EXCEPT !.Fragment = fragment.s], err |-> ""]

\* url.Parse(rawURL)
Parse(rawURL) ==
    setFragment(parse(Cut(rawURL, "#")[1]), unescape(Cut(rawURL, "#")[2], "encodeFragment"))

(***************************************************************************)
(* proxy.CreateTransport and proxy.MaskAuth                                 *)
(***************************************************************************)
\* An error value: nil, or the parts its text is concatenated from.
NoError == <<>>

\* *http.Transport: nil, or what the transport dials through
NilTransport == [kind |-> "nil", addr |-> <<>>, user |-> NilUser]

S_socks5 == <<"s", "o", "c", "k", "s", "5">>
S_http == <<"h", "t", "t", "p">>
SchemeSep == <<":", "/", "/">>

\* The switch of CreateTransport falling back to the HTTP proxy transport
transportFor_DefaultHttp(protocol, proxyURI) ==
    IF proxyURI.err # "" THEN <<NilTransport, <<"parse: ", proxyURI.err>>>>
    ELSE IF ToLower(protocol) = S_socks5 /\ proxyURI.url.Host = <<>>
    THEN <<NilTransport, <<"proxy address (host:port) is not specified">>>>
    ELSE <<[kind |-> IF ToLower(protocol) = S_socks5 THEN "socks5" ELSE "http",
            addr |-> proxyURI.url.Host, user |-> proxyURI.url.User], NoError>>

CreateTransport_DefaultHttp(protocol, proxyString) ==
    transportFor_DefaultHttp(protocol, Parse(protocol \o SchemeSep \o proxyString))

\* The switch of CreateTransport without the check of proxyURI.Host
transportFor_NoHostCheck(protocol, proxyURI) ==
    IF proxyURI.err # "" THEN <<NilTransport, <<"parse: ", proxyURI.err>>>>
    ELSE IF ToLower(protocol) \in {S_socks5, S_http}
    THEN <<[kind |-> IF ToLower(protocol) = S_socks5 THEN "socks5" ELSE "http",
            addr |-> proxyURI.url.Host, user |-> proxyURI.url.User], NoError>>
    ELSE <<NilTransport, <<"unsupported proxy protocol: ", protocol>>>>

CreateTransport_NoHostCheck(protocol, proxyString) ==
    transportFor_NoHostCheck(protocol, Parse(protocol \o SchemeSep \o proxyString))

\* CreateTransport once url.Parse has returned proxyURI: <<transport, err>>
transportFor(protocol, proxyURI) ==
    LET lower == ToLower(protocol)
        transport(kind) ==
            [kind |-> kind, addr |-> proxyURI.url.Host, user |-> proxyURI.url.User]
    IN  IF proxyURI.err # "" THEN <<NilTransport, <<"parse: ", proxyURI.err>>>>
        ELSE IF lower = S_socks5
        THEN IF proxyURI.url.Host = <<>>
             THEN <<NilTransport, <<"proxy address (host:port) is not specified">>>>
             ELSE <<transport("socks5"), NoError>>
        ELSE IF lower = S_http THEN <<transport("http"), NoError>>
        ELSE <<NilTransport, <<"unsupported proxy protocol: ", protocol>>>>

\* CreateTransport(protocol, proxyString): <<transport, err>>
CreateTransport(protocol, proxyString) ==
    transportFor(protocol, Parse(protocol \o SchemeSep \o proxyString))

\* MaskAuth returning the user-info part along with the host
maskedHost_KeepUserinfo(proxyString, u) ==
    IF u.err # "" THEN proxyString
    ELSE IF u.url.User.isNil THEN u.url.Host
    ELSE IF u.url.User.passwordSet
    THEN u.url.User.username \o <<":">> \o u.url.User.password \o <<"@">> \o u.url.Host
    ELSE u.url.User.username \o <<"@">> \o u.url.Host

MaskAuth_KeepUserinfo(protocol, proxyString) ==
    maskedHost_KeepUserinfo(proxyString, Parse(protocol \o SchemeSep \o proxyString))

\* MaskAuth returning the masked URL's user name along with the host
maskedHost_KeepUsername(proxyString, u) ==
    IF u.err # "" THEN proxyString
    ELSE IF u.url.User.isNil THEN u.url.Host
    ELSE u.url.User.username \o <<"@">> \o u.url.Host

MaskAuth_KeepUsername(protocol, proxyString) ==
    maskedHost_KeepUsername(proxyString, Parse(protocol \o SchemeSep \o proxyString))

\* MaskAuth returning the empty string when url.Parse fails
maskedHost_EmptyOnError(proxyString, u) == IF u.err # "" THEN <<>> ELSE u.url.Host

MaskAuth_EmptyOnError(protocol, proxyString) ==
    maskedHost_EmptyOnError(proxyString, Parse(protocol \o SchemeSep \o proxyString))

\* MaskAuth once url.Parse has returned u
maskedHost(proxyString, u) == IF u.err # "" THEN proxyString ELSE u.url.Host

\* MaskAuth(protocol, proxyString)
MaskAuth(protocol, proxyString) ==
    maskedHost(proxyString, Parse(protocol \o SchemeSep \o proxyString))

(***************************************************************************)
(* Configurations                                                           *)
(***************************************************************************)
TargetURL == URL_example

P_us == Proxy("socks5", "proxy1.example.com:1080", MakeMap([k \in {"region"} |-> "us"]))
P_eu ==
    Proxy("http", "user:pass@proxy2.example.com:8080",
          MakeMap([k \in {"region", "tier"} |-> IF k = "region" THEN "eu" ELSE "gold"]))
P_nil == Proxy("SOCKS5", "proxy3.example.com:1080", NilMap)
P_ftp == Proxy("ftp", "proxy4.example.com:21", MakeMap(<<>>))
P_nohost == Proxy("socks5", "", MakeMap([k \in {"name"} |-> "wifi"]))
P_status == Proxy("http", "proxy3.example.com:1080", MakeMap([k \in {"status"} |-> "beta"]))
P_proxyid == Proxy("socks5", "proxy1.example.com:1080", MakeMap([k \in {"proxy_id"} |-> "a1"]))

ProxyLists ==
    { <<P_us>>, <<P_nil>>, <<P_us, P_eu>>, <<P_eu, P_nil>>, <<P_us, P_ftp>>, <<P_nohost, P_eu>>,
      <<P_us, P_status>>, <<P_proxyid>> }

Intervals == {1000, 0, -1000}

\* latency_buckets: absent, or a list of upper bounds (in thousandths of a second)
BucketLists == { <<>>, <<100, 500, 1000>>, <<250>> }

\* Every proxy list with every interval and no latency_buckets, and one
\* proxy list with each latency_buckets list: nothing but GetLatencyBuckets
\* reads the field.
Configs ==
    {[Proxies |-> l, RequestInterval |-> ms, LatencyBuckets |-> <<>>] :
        l \in ProxyLists, ms \in Intervals}
    \cup {[Proxies |-> <<P_nil>>, RequestInterval |-> 1000, LatencyBuckets |-> b] :
             b \in BucketLists}

\* The ladder GetLatencyBuckets falls back to, in thousandths of a second
DefaultBuckets == <<50, 100, 200, 300, 400, 500, 750, 1000, 1500, 2000, 5000, 10000>>

GetLatencyBuckets_AlwaysDefault(c) == DefaultBuckets

\* ProxyConfig.GetLatencyBuckets
GetLatencyBuckets(c) ==
    IF Len(c.LatencyBuckets) > 0 THEN c.LatencyBuckets ELSE DefaultBuckets

\* What client.Get returns as its error: *url.Error{"Get", targetURL, inner}
GetErrors ==
    {UrlError(OpGet, TargetURL, inner) :
        inner \in {NetError(F_deadline),
                   NetError(F_dial_tcp \o Sep \o F_refused),
                   ErrorString(F_unknown)}}

StatusCodes == {200, 399, 400, 503}

GetResults ==
    {Response(e, 0, FALSE) : e \in GetErrors}
        \cup {Response(NilErr, c, r) : c \in StatusCodes, r \in BOOLEAN}

\* Each result with the status and error label Make derives from it
GetOutcomes == {<<res, Outcome(res)>> : res \in GetResults}

(***************************************************************************)
(* main, runner.Run and request.Make as processes                           *)
(***************************************************************************)
\* main: "proxy_" + strconv.Itoa(i+1) for the proxy at index i
ProxyID(k) == "proxy_" \o Itoa(k)

NewAttempt(k) ==
    [proxy |-> k, pc |-> "Get", res |-> Response(NilErr, 0, FALSE),
     incs |-> <<>>, obs |-> <<>>]

Init ==
    /\ cfg \in Configs
    /\ process = "running"
    /\ mainPc = "New"
    /\ nextProxy = 1
    /\ LabelKeys = <<>>
    /\ requestsLabels = <<>>
    /\ durationLabels = <<>>
    /\ RequestsTotal = <<>>
    /\ RequestDuration = <<>>
    /\ Buckets = <<>>
    /\ runner = [k \in 1..Len(cfg.Proxies) |-> [pc |-> "NotStarted", ticks |-> 0, started |-> 0]]
    /\ attempts = <<>>
    /\ CatIdle
    /\ KeysIdle
    /\ ProxyIdle

\* metrics.New from its label lists on: both vectors are created, then
\* registered; a panic of MustRegister ends the process before New returns
\* its Metrics, otherwise LabelKeys is set
NewRegistered(labelKeys, requestsNames, durationNames) ==
    /\ requestsLabels' = requestsNames
    /\ durationLabels' = durationNames
    /\ IF HasDuplicates(requestsNames) \/ HasDuplicates(durationNames)
       THEN /\ process' = "panicked"
            /\ mainPc' = "Panicked"
            /\ UNCHANGED LabelKeys
       ELSE /\ LabelKeys' = labelKeys
            /\ mainPc' = "Start"
            /\ UNCHANGED process

\* main: buckets := cfg.GetLatencyBuckets(); m := metrics.New(cfg.Proxies, buckets)
MainNew ==
    /\ process = "running"
    /\ mainPc = "New"
    /\ Buckets' = GetLatencyBuckets(cfg)
    /\ \E iter \in IterationOrders(KeySetOf(cfg.Proxies)) :
           \E labelKeys \in {collectLabelKeys(cfg.Proxies, iter)} :
               NewRegistered(labelKeys, RequestsLabelNames(labelKeys),
                             DurationLabelNames(labelKeys))
    /\ UNCHANGED <<cfg, nextProxy, RequestsTotal, RequestDuration, runner, attempts,
                   catVars, keyVars, proxyVars>>

\* main collecting the label keys again, from the started proxy alone
MainStartRunner_RecollectsKeys ==
    /\ process = "running"
    /\ mainPc = "Start"
    /\ runner' = [runner EXCEPT ![nextProxy].pc = "CreateTransport"]
    /\ nextProxy' = nextProxy + 1
    /\ mainPc' = IF nextProxy = Len(cfg.Proxies) THEN "Select" ELSE "Start"
    /\ \E iter \in IterationOrders(KeySetOf(<<cfg.Proxies[nextProxy]>>)) :
           LabelKeys' = collectLabelKeys(<<cfg.Proxies[nextProxy]>>, iter)
    /\ UNCHANGED <<cfg, process, attempts, requestsLabels, durationLabels, RequestsTotal,
                   RequestDuration, Buckets, catVars, keyVars, proxyVars>>

\* main: go runner.Run(m, proxyID, proxyConfig, ...), one proxy per step;
\* after the last one main blocks in select {}
MainStartRunner ==
    /\ process = "running"
    /\ mainPc = "Start"
    /\ runner' = [runner EXCEPT ![nextProxy].pc = "CreateTransport"]
    /\ nextProxy' = nextProxy + 1
    /\ mainPc' = IF nextProxy = Len(cfg.Proxies) THEN "Select" ELSE "Start"
    /\ UNCHANGED <<cfg, process, attempts, metricVars, catVars, keyVars, proxyVars>>

\* Run logging the error of proxy.CreateTransport and carrying on
RunCreateTransport_CarriesOn(k) ==
    /\ process = "running"
    /\ runner[k].pc = "CreateTransport"
    /\ runner' = [runner EXCEPT ![k].pc = "NewTicker"]
    /\ UNCHANGED <<cfg, process, mainPc, nextProxy, attempts, metricVars, catVars, keyVars,
                   proxyVars>>

\* Run: proxy.CreateTransport; on an error log.Fatalf ends the process
RunCreateTransport(k) ==
    /\ process = "running"
    /\ runner[k].pc = "CreateTransport"
    /\ IF CreateTransport(Chars(cfg.Proxies[k].Protocol),
                          Chars(cfg.Proxies[k].Proxy))[2] = NoError
       THEN /\ runner' = [runner EXCEPT ![k].pc = "NewTicker"]
            /\ UNCHANGED process
       ELSE /\ runner' = [runner EXCEPT ![k].pc = "Failed"]
            /\ process' = "exited"
    /\ UNCHANGED <<cfg, mainPc, nextProxy, attempts, metricVars, catVars, keyVars, proxyVars>>

\* Run: time.NewTicker(requestInterval), which panics unless the interval is
\* positive, then the initial go request.Make(...)
RunInitial(k) ==
    /\ process = "running"
    /\ runner[k].pc = "NewTicker"
    /\ IF cfg.RequestInterval <= 0
       THEN /\ process' = "panicked"
            /\ runner' = [runner EXCEPT ![k].pc = "Panicked"]
            /\ UNCHANGED attempts
       ELSE /\ Len(attempts) < MaxAttempts
            /\ attempts' = Append(attempts, NewAttempt(k))
            /\ runner' = [runner EXCEPT ![k].pc = "Loop", ![k].started = @ + 1]
            /\ UNCHANGED process
    /\ UNCHANGED <<cfg, mainPc, nextProxy, metricVars, catVars, keyVars, proxyVars>>

\* The tick loop waiting for the runner's earlier attempts before it starts
\* the next one
RunTick_WaitsForAttempts(k) ==
    /\ process = "running"
    /\ runner[k].pc = "Loop"
    /\ \A a \in DOMAIN attempts : attempts[a].proxy = k => attempts[a].pc = "Done"
    /\ Len(attempts) < MaxAttempts
    /\ attempts' = Append(attempts, NewAttempt(k))
    /\ runner' = [runner EXCEPT ![k].ticks = @ + 1, ![k].started = @ + 1]
    /\ UNCHANGED <<cfg, process, mainPc, nextProxy, metricVars, catVars, keyVars, proxyVars>>

\* Run: for range ticker.C { go request.Make(...) }
RunTick(k) ==
    /\ process = "running"
    /\ runner[k].pc = "Loop"
    /\ Len(attempts) < MaxAttempts
    /\ attempts' = Append(attempts, NewAttempt(k))
    /\ runner' = [runner EXCEPT ![k].ticks = @ + 1, ![k].started = @ + 1]
    /\ UNCHANGED <<cfg, process, mainPc, nextProxy, metricVars, catVars, keyVars, proxyVars>>

\* Make: client.Get returns, the body is drained, the attempt is classified
\* and requests_total is incremented
MakeRequest(a) ==
    /\ process = "running"
    /\ attempts[a].pc = "Get"
    /\ \E ro \in GetOutcomes :
         LET k == attempts[a].proxy
             res == ro[1]
             out == ro[2]
             values == buildLabelValues(ProxyID(k), cfg.Proxies[k].Protocol, LabelKeys,
                                        cfg.Proxies[k].Labels, out[1], out[2])
         IN  /\ RequestsTotal' = Recorded(RequestsTotal, values)
             /\ attempts' = [attempts EXCEPT ![a].pc = "Observe", ![a].res = res,
                                             ![a].incs = Append(@, values)]
    /\ UNCHANGED <<cfg, process, mainPc, nextProxy, runner, LabelKeys, requestsLabels,
                   durationLabels, RequestDuration, Buckets, catVars, keyVars, proxyVars>>

\* Make returning on a transport error before it observes the duration
MakeObserve_OnlyOnResponse(a) ==
    /\ process = "running"
    /\ attempts[a].pc = "Observe"
    /\ LET k == attempts[a].proxy
           values == buildDurationLabelValues(ProxyID(k), cfg.Proxies[k].Protocol, LabelKeys,
                                              cfg.Proxies[k].Labels)
       IN  IF attempts[a].res.err # NilErr
           THEN /\ attempts' = [attempts EXCEPT ![a].pc = "Done"]
                /\ UNCHANGED RequestDuration
           ELSE /\ RequestDuration' = Recorded(RequestDuration, values)
                /\ attempts' = [attempts EXCEPT ![a].pc = "Done", ![a].obs = Append(@, values)]
    /\ UNCHANGED <<cfg, process, mainPc, nextProxy, runner, LabelKeys, requestsLabels,
                   durationLabels, RequestsTotal, Buckets, catVars, keyVars, proxyVars>>

\* Make: request_duration_seconds observes the duration; Make returns
MakeObserve(a) ==
    /\ process = "running"
    /\ attempts[a].pc = "Observe"
    /\ LET k == attempts[a].proxy
           values == buildDurationLabelValues(ProxyID(k), cfg.Proxies[k].Protocol, LabelKeys,
                                              cfg.Proxies[k].Labels)
       IN  /\ RequestDuration' = Recorded(RequestDuration, values)
           /\ attempts' = [attempts EXCEPT ![a].pc = "Done", ![a].obs = Append(@, values)]
    /\ UNCHANGED <<cfg, process, mainPc, nextProxy, runner, LabelKeys, requestsLabels,
                   durationLabels, RequestsTotal, Buckets, catVars, keyVars, proxyVars>>

Next ==
    \/ MainNew
    \/ MainStartRunner
    \/ \E k \in DOMAIN runner : RunCreateTransport(k)
    \/ \E k \in DOMAIN runner : RunInitial(k)
    \/ \E k \in DOMAIN runner : RunTick(k)
    \/ \E a \in DOMAIN attempts : MakeRequest(a)
    \/ \E a \in DOMAIN attempts : MakeObserve(a)

Spec == Init /\ [][Next]_vars

(***************************************************************************)
(* SpecCat: CategorizeError applied to every input                          *)
(***************************************************************************)
InitCat ==
    /\ catErr \in ErrorInputs
    /\ catResult = Pending
    /\ KeysIdle
    /\ MainIdle
    /\ ProxyIdle

Categorize ==
    /\ catResult = Pending
    /\ catResult' = CategorizeError(catErr)
    /\ UNCHANGED <<catErr, keyVars, metricVars, mainVars, proxyVars>>

NextCat == Categorize

SpecCat == InitCat /\ [][NextCat]_vars

(***************************************************************************)
(* SpecKeys: collectLabelKeys applied to every proxy list                   *)
(***************************************************************************)
InitKeys ==
    /\ keyProxies \in KeyInputs
    /\ keyResult = Pending
    /\ CatIdle
    /\ MainIdle
    /\ ProxyIdle

CollectLabelKeys ==
    /\ keyResult = Pending
    /\ \E iter \in IterationOrders(KeySetOf(keyProxies)) :
           keyResult' = collectLabelKeys(keyProxies, iter)
    /\ UNCHANGED <<keyProxies, catVars, metricVars, mainVars, proxyVars>>

NextKeys == CollectLabelKeys

SpecKeys == InitKeys /\ [][NextKeys]_vars

(***************************************************************************)
(* SpecProxy: CreateTransport and MaskAuth applied to every input           *)
(***************************************************************************)
Protocols ==
    {S_socks5, S_http, Chars("SOCKS5"), Chars("Http"), Chars("ftp"), Chars("https"),
     Chars("5ocks"), <<>>}
Usernames == {Chars("user")}
Passwords ==
    {<<>>, Chars("pass"), Chars("p@ss:w0rd"), Chars("pa/ss"), Chars("pa ss"), Chars("p%40ss"),
     Chars("1080")}
HostPorts ==
    {Chars("proxy.example.com:1080"), Chars("127.0.0.1:8080"), Chars("[::1]:1080"),
     Chars("[fe80::1%25eth0]:1080"), Chars("proxy.example.com"),
     Chars("proxy.example.com:8o80"), Chars("h%25x:80"), <<>>}
Paths == {<<>>, Chars("/status")}

\* The documented proxy strings: host:port, user@host:port, user:password@host:port
WithUser(user, hostPort) == user \o <<"@">> \o hostPort
WithPassword(user, password, hostPort) == user \o <<":">> \o password \o <<"@">> \o hostPort

AddressSpecs ==
    HostPorts
        \cup {WithUser(u, hp) : u \in Usernames, hp \in HostPorts}
        \cup {WithPassword(u, pw, hp) : u \in Usernames, pw \in Passwords, hp \in HostPorts}

ProxyStrings == {a \o path : a \in AddressSpecs, path \in Paths} \cup {Chars("invalid://url")}

InitProxy ==
    /\ argProtocol \in Protocols
    /\ argProxyString \in ProxyStrings
    /\ transportResult = Pending
    /\ maskResult = Pending
    /\ CatIdle
    /\ KeysIdle
    /\ MainIdle

CallCreateTransport ==
    /\ transportResult = Pending
    /\ transportResult' = CreateTransport(argProtocol, argProxyString)
    /\ UNCHANGED <<argProtocol, argProxyString, maskResult, catVars, keyVars, metricVars, mainVars>>

CallMaskAuth ==
    /\ maskResult = Pending
    /\ maskResult' = MaskAuth(argProtocol, argProxyString)
    /\ UNCHANGED <<argProtocol, argProxyString, transportResult, catVars, keyVars, metricVars,
                   mainVars>>

NextProxy == CallCreateTransport \/ CallMaskAuth

SpecProxy == InitProxy /\ [][NextProxy]_vars

(***************************************************************************)
(* SpecTaxonomy: the classifier on every input, and the system              *)
(***************************************************************************)
SpecTaxonomy == (InitCat \/ Init) /\ [][NextCat \/ Next]_vars

(***************************************************************************)
(* Properties                                                               *)
(***************************************************************************)
\* Two bytes that are the same letter up to case, or the same byte.
SameLetter(a, b) ==
    \/ a = b
    \/ \E n \in 1..Len(UpperLetters) : {a, b} = {UpperLetters[n], LowerLetters[n]}

\* text contains pat in some letter case
Mentions(text, pat) ==
    \E i \in 1..(Len(text) - Len(pat) + 1) :
        \A j \in 1..Len(pat) : SameLetter(text[i + j - 1], pat[j])

MentionsTimeout(err) ==
    \/ Mentions(ErrorText(err), S_timeout)
    \/ Mentions(ErrorText(err), S_deadline_exceeded)
    \/ Mentions(ErrorText(err), S_io_timeout)

MentionsDns(err) ==
    \/ Mentions(ErrorText(err), S_no_such_host)
    \/ Mentions(ErrorText(err), S_dns)
    \/ Mentions(ErrorText(err), S_name_resolution)

MentionsConnection(err) ==
    \/ err.type = "EOF"
    \/ Mentions(ErrorText(err), S_eof)
    \/ Mentions(ErrorText(err), S_connection_refused)
    \/ Mentions(ErrorText(err), S_connection_reset)
    \/ Mentions(ErrorText(err), S_broken_pipe)
    \/ Mentions(ErrorText(err), S_network_is_unreachable)

\* err's type has Timeout() and Temporary()
ExposesNetMarker(err) == err.type \in {"netError", "urlError"}

Categorized == catResult # Pending /\ catResult # Idle

\* The attempts whose requests_total increment has happened.
Counted == {a \in DOMAIN attempts : attempts[a].pc \in {"Observe", "Done"}}

StatusLabel(v) == v[Len(v) - 1]
ErrorLabel(v) == v[Len(v)]

\* C1: an error whose text contains "timeout", "deadline exceeded" or
\* "i/o timeout" in any letter case is categorized "timeout", whatever other
\* rule substrings the text contains.
C1_TimeoutRuleFirst ==
    (Categorized /\ catErr # NilErr /\ MentionsTimeout(catErr))
        => catResult[1] = "timeout"

\* C1 witness: "Connection Reset by peer: i/o Timeout" is categorized timeout.
C1_Witness ==
    /\ catErr = ErrorString(F_Reset \o Sep \o F_io_Timeout)
    /\ catResult = <<"timeout", "">>

\* C2 as claimed: every counted attempt without transport error and with a
\* status >= 400 has incremented requests_total with status "error" and
\* error "http_<status>".
C2_AsClaimed ==
    \A a \in Counted :
        (attempts[a].res.err = NilErr /\ attempts[a].res.StatusCode >= 400)
            => /\ Len(attempts[a].incs) = 1
               /\ StatusLabel(attempts[a].incs[1]) = "error"
               /\ ErrorLabel(attempts[a].incs[1])
                    = "http_" \o ToString(attempts[a].res.StatusCode)

\* C2 amended: an attempt without transport error, whose body was drained
\* without error and whose status is >= 400, increments requests_total once
\* with status "error" and error "http_<status>", and when it has returned it
\* has recorded one latency observation.
C2_HttpStatusCategory ==
    \A a \in Counted :
        (/\ attempts[a].res.err = NilErr
         /\ ~attempts[a].res.readErr
         /\ attempts[a].res.StatusCode >= 400)
            => /\ Len(attempts[a].incs) = 1
               /\ StatusLabel(attempts[a].incs[1]) = "error"
               /\ ErrorLabel(attempts[a].incs[1])
                    = "http_" \o ToString(attempts[a].res.StatusCode)
               /\ Count(RequestsTotal, attempts[a].incs[1]) >= 1
               /\ attempts[a].pc = "Done"
                    => /\ Len(attempts[a].obs) = 1
                       /\ Count(RequestDuration, attempts[a].obs[1]) >= 1

\* C2 witness: scenario B, a 503 response recorded as http_503 with its latency.
C2_Witness ==
    \E a \in DOMAIN attempts :
        /\ attempts[a].pc = "Done"
        /\ attempts[a].res = Response(NilErr, 503, FALSE)
        /\ ErrorLabel(attempts[a].incs[1]) = "http_503"
        /\ Len(attempts[a].obs) = 1

\* C3: an attempt is recorded with status "success" and an empty category
\* exactly when it had no transport error, no body-read error and a status
\* below 400; every other attempt is recorded with status "error" and a
\* non-empty category.
C3_SuccessIff ==
    \A a \in Counted :
        LET res == attempts[a].res
            v == attempts[a].incs[1]
            clean == res.err = NilErr /\ ~res.readErr /\ res.StatusCode < 400
        IN  /\ Len(attempts[a].incs) = 1
            /\ (StatusLabel(v) = "success" /\ ErrorLabel(v) = "") <=> clean
            /\ ~clean => (StatusLabel(v) = "error" /\ ErrorLabel(v) # "")

\* C3 witness: one attempt recorded as success and one as error.
C3_Witness ==
    \E a, b \in Counted :
        /\ attempts[a].res = Response(NilErr, 399, FALSE)
        /\ attempts[a].incs[1][Len(attempts[a].incs[1]) - 1] = "success"
        /\ attempts[b].res.err # NilErr
        /\ attempts[b].incs[1][Len(attempts[b].incs[1]) - 1] = "error"

\* C4: when the transport call succeeded and draining the body fails, the
\* attempt is recorded once, with status "error" and category "read_error",
\* and when it has returned it has recorded one latency observation.
C4_ReadError ==
    \A a \in Counted :
        (attempts[a].res.err = NilErr /\ attempts[a].res.readErr)
            => /\ Len(attempts[a].incs) = 1
               /\ StatusLabel(attempts[a].incs[1]) = "error"
               /\ ErrorLabel(attempts[a].incs[1]) = "read_error"
               /\ attempts[a].pc = "Done" => Len(attempts[a].obs) = 1

\* C4 witness: a 503 response whose body fails to drain, recorded as read_error.
C4_Witness ==
    \E a \in DOMAIN attempts :
        /\ attempts[a].pc = "Done"
        /\ attempts[a].res = Response(NilErr, 503, TRUE)
        /\ attempts[a].incs[1][Len(attempts[a].incs[1])] = "read_error"
        /\ Len(attempts[a].obs) = 1

ClassifierCategories == {"timeout", "dns_error", "connection_error", "unknown_error"}
HttpCategories == {"http_" \o ToString(c) : c \in 400..599}
Taxonomy == ClassifierCategories \cup {"read_error"} \cup HttpCategories

\* C5: CategorizeError returns ("", "") for nil and, for every other error,
\* one of timeout, dns_error, connection_error, unknown_error with an empty
\* second result; every error category request.Make records is in the
\* taxonomy (those four, read_error, http_<code>).
C5_ClosedTaxonomy ==
    /\ Categorized =>
          IF catErr = NilErr
          THEN catResult = <<"", "">>
          ELSE catResult[1] \in ClassifierCategories /\ catResult[2] = ""
    /\ \A a \in Counted :
          \A i \in 1..Len(attempts[a].incs) :
              \/ /\ StatusLabel(attempts[a].incs[i]) = "success"
                 /\ ErrorLabel(attempts[a].incs[i]) = ""
              \/ /\ StatusLabel(attempts[a].incs[i]) = "error"
                 /\ ErrorLabel(attempts[a].incs[i]) \in Taxonomy

\* C5 witness: an attempt recorded with a category of the classifier.
C5_Witness ==
    \E a \in Counted :
        /\ attempts[a].res.err # NilErr
        /\ attempts[a].incs[1][Len(attempts[a].incs[1])] = "unknown_error"

\* C6: an error whose text has no timeout-rule and no dns-rule substring and
\* that is io.EOF or contains "eof", "connection refused", "connection
\* reset", "broken pipe" or "network is unreachable" in any letter case is
\* categorized "connection_error".
C6_ConnectionRules ==
    (/\ Categorized
     /\ catErr # NilErr
     /\ ~MentionsTimeout(catErr)
     /\ ~MentionsDns(catErr)
     /\ MentionsConnection(catErr))
        => catResult[1] = "connection_error"

\* C6 witness: scenario C, "dial tcp: connection refused".
C6_Witness ==
    /\ catErr = ErrorString(F_dial_tcp \o Sep \o F_refused)
    /\ catResult = <<"connection_error", "">>

\* C7 as claimed: an error that exposes the net.Error marker (a *url.Error
\* included) and whose text matches no rule is categorized
\* "connection_error", and "unknown_error" is returned only for errors that
\* match no rule and do not expose the marker.
C7_AsClaimed ==
    (Categorized /\ catErr # NilErr)
        => LET noRule == /\ ~MentionsTimeout(catErr)
                         /\ ~MentionsDns(catErr)
                         /\ ~MentionsConnection(catErr)
           IN  /\ (ExposesNetMarker(catErr) /\ noRule) => catResult[1] = "connection_error"
               /\ catResult[1] = "unknown_error" => (noRule /\ ~ExposesNetMarker(catErr))

\* C8 as claimed: a *url.Error with a non-nil inner error has the category
\* of its inner error, whatever its Op and URL.
C8_AsClaimed ==
    (Categorized /\ catErr.type = "urlError" /\ catErr.Err # NilErr)
        => catResult[1] = CategorizeError(catErr.Err)[1]

\* C9: every label-value list passed to requests_total has length
\* 2 + |LabelKeys| + 2 and every list passed to request_duration_seconds has
\* length 2 + |LabelKeys|, the numbers of label names metrics.New registered.
C9_LabelValueCounts ==
    \A a \in DOMAIN attempts :
        /\ \A i \in 1..Len(attempts[a].incs) :
              /\ Len(attempts[a].incs[i]) = 2 + Len(LabelKeys) + 2
              /\ Len(attempts[a].incs[i]) = Len(requestsLabels)
        /\ \A i \in 1..Len(attempts[a].obs) :
              /\ Len(attempts[a].obs[i]) = 2 + Len(LabelKeys)
              /\ Len(attempts[a].obs[i]) = Len(durationLabels)

\* C9 witness: a proxy with a nil label map under the schema [region, tier].
C9_Witness ==
    \E a \in DOMAIN attempts :
        /\ attempts[a].pc = "Done"
        /\ cfg.Proxies[attempts[a].proxy].Labels = NilMap
        /\ LabelKeys = <<"region", "tier">>
        /\ Len(attempts[a].incs[1]) = 6
        /\ Len(attempts[a].obs[1]) = 4

\* The reorderings of a list.
Reorderings(l) ==
    {[i \in 1..Len(l) |-> l[p[i]]] :
        p \in {q \in [1..Len(l) -> 1..Len(l)] : \A i \in 1..Len(l) : \E j \in 1..Len(l) : q[j] = i}}

\* C10: collectLabelKeys returns the keys of all proxies' label maps in
\* ascending order without duplicates, and returns the same list for every
\* reordering of the proxies and every map-iteration order.
C10_SortedUnion ==
    (keyResult # Pending /\ keyResult # Idle)
        => /\ {keyResult[i] : i \in 1..Len(keyResult)} = KeySetOf(keyProxies)
           /\ \A i \in 1..(Len(keyResult) - 1) : StringLess(keyResult[i], keyResult[i + 1])
           /\ \A l \in Reorderings(keyProxies) :
                 \A iter \in IterationOrders(KeySetOf(l)) :
                     collectLabelKeys(l, iter) = keyResult

\* C10 witness: {Zone, name} and {name, region} give [Zone, name, region].
C10_Witness ==
    /\ Len(keyProxies) = 2
    /\ MapKeys(keyProxies[1].Labels) = {"name", "region"}
    /\ MapKeys(keyProxies[2].Labels) = {"Zone", "name"}
    /\ keyResult = <<"Zone", "name", "region">>

\* The value a proxy's label map gives a key: "" when it has none.
ValueOrEmpty(labels, key) ==
    IF ~labels.isNil /\ key \in DOMAIN labels.kv THEN labels.kv[key] ELSE ""

\* C11: in every recorded sample the i-th custom label value is the proxy's
\* value for the i-th key of LabelKeys, or "" when the proxy does not define
\* that key; the proxy id and protocol come first.
C11_SchemaOrderedValues ==
    \A a \in DOMAIN attempts :
        LET k == attempts[a].proxy
            labels == cfg.Proxies[k].Labels
            samples == {attempts[a].incs[i] : i \in 1..Len(attempts[a].incs)}
                          \cup {attempts[a].obs[i] : i \in 1..Len(attempts[a].obs)}
        IN  \A v \in samples :
                /\ v[1] = "proxy_" \o ToString(k)
                /\ v[2] = cfg.Proxies[k].Protocol
                /\ \A i \in 1..Len(LabelKeys) : v[2 + i] = ValueOrEmpty(labels, LabelKeys[i])

\* C11 witness: scenario A, {region: us} and {region: eu, tier: gold}: the
\* first proxy records region = "us" and tier = "".
C11_Witness ==
    \E a \in DOMAIN attempts :
        /\ attempts[a].pc = "Done"
        /\ attempts[a].proxy = 1
        /\ cfg.Proxies = <<P_us, P_eu>>
        /\ LabelKeys = <<"region", "tier">>
        /\ attempts[a].incs[1][3] = "us" /\ attempts[a].incs[1][4] = ""
        /\ attempts[a].obs[1] = <<"proxy_1", "socks5", "us", "">>

\* The credential prefixes of the documented proxy strings: none, "user@",
\* "user:password@".
Credentials ==
    {<<>>}
        \cup {WithUser(u, <<>>) : u \in Usernames}
        \cup {WithPassword(u, pw, <<>>) : u \in Usernames, pw \in Passwords}

\* protocol://addressSpec parses
Parses == Parse(argProtocol \o SchemeSep \o argProxyString).err = ""

UnsupportedProtocol == <<"unsupported proxy protocol: ", argProtocol>>

\* C12 as claimed: for every protocol string other than "socks5" and "http"
\* and every address spec, CreateTransport returns no transport and the
\* "unsupported proxy protocol" error.
C12_AsClaimed ==
    (transportResult # Pending /\ argProtocol \notin {S_socks5, S_http})
        => transportResult = <<NilTransport, UnsupportedProtocol>>

\* C12 amended: for every protocol string that is neither "socks5" nor "http"
\* when compared without regard to case, and every address spec,
\* CreateTransport returns no transport and an error; the error is the
\* "unsupported proxy protocol" error whenever protocol://addressSpec
\* parses, and the error of url.Parse otherwise.
C12_UnsupportedProtocol ==
    (transportResult # Pending /\ ToLower(argProtocol) \notin {S_socks5, S_http})
        => /\ transportResult[1] = NilTransport
           /\ transportResult[2] # NoError
           /\ Parses => transportResult[2] = UnsupportedProtocol
           /\ ~Parses => transportResult[2][1] = "parse: "

C12_Witness ==
    /\ argProtocol = Chars("ftp")
    /\ argProxyString = WithPassword(Chars("user"), Chars("pass"), Chars("proxy.example.com:1080"))
    /\ transportResult = <<NilTransport, <<"unsupported proxy protocol: ", Chars("ftp")>>>>

\* C13: for protocol socks5 (in any case), CreateTransport returns no
\* transport and an error whenever the host:port portion of the address spec
\* is empty, with or without credentials before it.
C13_EmptyHostPort ==
    (transportResult # Pending /\ ToLower(argProtocol) = S_socks5)
        => \A c \in Credentials, path \in Paths :
               argProxyString = c \o path
                   => transportResult[1] = NilTransport /\ transportResult[2] # NoError

C13_Witness ==
    /\ argProtocol = S_socks5
    /\ argProxyString = WithPassword(Chars("user"), Chars("pass"), <<>>)
    /\ transportResult = <<NilTransport, <<"proxy address (host:port) is not specified">>>>

\* The host:port parts that are syntactically valid: a host name, an IPv4
\* address or a bracketed IPv6 address, each followed by a decimal port.
ValidHostPorts == {Chars("proxy.example.com:1080"), Chars("127.0.0.1:8080"), Chars("[::1]:1080")}

\* C14 as claimed: for protocol socks5 or http and every address spec
\* [user[:password]@]host:port with a syntactically valid host:port,
\* CreateTransport returns a transport and no error.
C14_AsClaimed ==
    (transportResult # Pending /\ argProtocol \in {S_socks5, S_http})
        => \A c \in Credentials, hp \in ValidHostPorts :
               argProxyString = c \o hp
                   => transportResult[1] # NilTransport /\ transportResult[2] = NoError

C17_NeverRaises ==
    /\ maskResult # Pending => \A i \in 1..Len(maskResult) : maskResult[i] \in STRING
    /\ (maskResult # Pending /\ ~Parses) => maskResult = argProxyString
    /\ (maskResult # Pending /\ argProxyString = Chars("invalid://url")) => maskResult # <<>>

C17_Witness ==
    /\ argProtocol = S_socks5
    /\ argProxyString = WithPassword(Chars("user"), Chars("pa ss"), Chars("proxy.example.com:1080"))
    /\ ~Parses
    /\ maskResult = argProxyString

\* The attempts runner k has started
AttemptsOf(k) == {a \in DOMAIN attempts : attempts[a].proxy = k}

InFlight(a) == attempts[a].pc = "Get"

\* C18 as claimed: a runner whose transport was built has fired one attempt
\* at once and one more per tick, whatever the earlier attempts returned:
\* once it is past the start of its ticker, the attempts it has started
\* number 1 + the ticks it has processed.
C18_AsClaimed ==
    \A k \in DOMAIN runner :
        runner[k].pc \in {"Loop", "Panicked"}
            => /\ runner[k].started = 1 + runner[k].ticks
               /\ Cardinality(AttemptsOf(k)) = runner[k].started

\* C19: the tick of a runner in its loop is enabled whatever the state of
\* its earlier attempts, so a second attempt is started while the first is
\* still in flight.
C19_TickNotSuppressed ==
    \A k \in DOMAIN runner :
        (process = "running" /\ runner[k].pc = "Loop" /\ Len(attempts) < MaxAttempts)
            => ENABLED RunTick(k)

C19_Witness ==
    \E a, b \in DOMAIN attempts :
        /\ a # b
        /\ attempts[a].proxy = attempts[b].proxy
        /\ InFlight(a)
        /\ InFlight(b)
        /\ runner[attempts[a].proxy].ticks = 1

\* C20 as claimed: when CreateTransport fails for one runner, every sibling
\* runner in its loop keeps ticking and the attempts in flight still
\* complete.
C20_AsClaimed ==
    \A k \in DOMAIN runner :
        runner[k].pc = "Failed"
            => /\ \A j \in DOMAIN runner :
                      (runner[j].pc = "Loop" /\ Len(attempts) < MaxAttempts)
                          => ENABLED RunTick(j)
               /\ \A a \in DOMAIN attempts : InFlight(a) => ENABLED MakeRequest(a)

\* Runner k is in its tick loop in a live process
Running(k) == runner[k].pc = "Loop" /\ process = "running"

\* C21 as claimed: once a runner is Running it is Running in every later
\* state, whatever its attempts and the other runners do.
C21_AsClaimed ==
    [][\A k \in DOMAIN runner : Running(k) => Running(k)']_vars

\* C22: once main has called metrics.New, the histogram buckets are the
\* configured latency_buckets list itself when it is non-empty, and otherwise
\* the 12-element ladder 0.05 .. 10.0 (here in thousandths of a second).
C22_BucketsOrDefault ==
    mainPc # "New" =>
        Buckets = IF cfg.LatencyBuckets # <<>>
                  THEN cfg.LatencyBuckets
                  ELSE <<50, 100, 200, 300, 400, 500, 750, 1000, 1500, 2000, 5000, 10000>>

C22_Witness ==
    /\ mainPc = "Start"
    /\ cfg.LatencyBuckets = <<>>
    /\ Len(Buckets) = 12

\* The four paths of Make, by what client.Get and the drain of the body gave
PathOf(res) ==
    IF res.err # NilErr THEN "transport_error"
    ELSE IF res.readErr THEN "read_error"
    ELSE IF res.StatusCode >= 400 THEN "http_status"
    ELSE "success"

\* C23: an attempt that has not returned from client.Get has recorded
\* nothing; one that has classified its result has made exactly one
\* requests_total increment and no observation yet; one that has returned has
\* made exactly one increment and exactly one observation, and the
\* observation's label values are the increment's without its status and
\* error values. This holds on each of the four paths of Make.
C23_OneIncThenOneObserve ==
    \A a \in DOMAIN attempts :
        LET at == attempts[a]
        IN  /\ at.pc = "Get" => (at.incs = <<>> /\ at.obs = <<>>)
            /\ at.pc = "Observe" => (Len(at.incs) = 1 /\ at.obs = <<>>)
            /\ at.pc = "Done" =>
                   /\ Len(at.incs) = 1
                   /\ Len(at.obs) = 1
                   /\ at.obs[1] = SubSeq(at.incs[1], 1, Len(at.incs[1]) - 2)
                   /\ at.obs[1][1] = "proxy_" \o ToString(at.proxy)
                   /\ at.obs[1][2] = cfg.Proxies[at.proxy].Protocol
                   /\ Count(RequestsTotal, at.incs[1]) >= 1
                   /\ Count(RequestDuration, at.obs[1]) >= 1

\* C23 witness: two attempts have returned, one on the transport-error path
\* and one on the body-read-error path.
C23_Witness ==
    \E a, b \in DOMAIN attempts :
        /\ attempts[a].pc = "Done" /\ PathOf(attempts[a].res) = "transport_error"
        /\ attempts[b].pc = "Done" /\ PathOf(attempts[b].res) = "read_error"

\* C24: an error whose text contains "no such host", "dns" or "name
\* resolution" in any letter case and no timeout-rule substring is categorized
\* "dns_error", also when the text contains "eof" or a connection-rule
\* substring or the error wraps io.EOF.
C24_DnsBeforeEofAndConnection ==
    (Categorized /\ catErr # NilErr /\ MentionsDns(catErr) /\ ~MentionsTimeout(catErr))
        => catResult = <<"dns_error", "">>

\* C24 witness: Get "http://dns.example": EOF, a wrapper of io.EOF whose text
\* matches both the dns rule and the eof rule, is categorized dns_error.
C24_Witness ==
    /\ Categorized
    /\ catErr # NilErr
    /\ catErr.type = "urlError"
    /\ catErr.Err = IoEOF
    /\ MentionsDns(catErr)
    /\ Mentions(ErrorText(catErr), S_eof)
    /\ ~MentionsTimeout(catErr)
    /\ catResult = <<"dns_error", "">>

\* The (attempt, index) pairs of the increments, resp. observations, that the
\* attempts have made with label values v
IncsWith(v) ==
    {<<a, i>> \in (DOMAIN attempts) \X (1..MaxAttempts) :
        i <= Len(attempts[a].incs) /\ attempts[a].incs[i] = v}

ObsWith(v) ==
    {<<a, i>> \in (DOMAIN attempts) \X (1..MaxAttempts) :
        i <= Len(attempts[a].obs) /\ attempts[a].obs[i] = v}

AllIncs == UNION {{attempts[a].incs[i] : i \in 1..Len(attempts[a].incs)} : a \in DOMAIN attempts}
AllObs == UNION {{attempts[a].obs[i] : i \in 1..Len(attempts[a].obs)} : a \in DOMAIN attempts}

\* C25: in every state the contents of requests_total and of
\* request_duration_seconds are determined by the set of increments and
\* observations the attempts have made, whatever the order of their steps:
\* each metric has exactly the label vectors that were recorded, and the
\* count of each is the number of recordings with it, so none is lost.
C25_CountsAreTallies ==
    /\ DOMAIN RequestsTotal = AllIncs
    /\ \A v \in DOMAIN RequestsTotal : RequestsTotal[v] = Cardinality(IncsWith(v))
    /\ DOMAIN RequestDuration = AllObs
    /\ \A v \in DOMAIN RequestDuration : RequestDuration[v] = Cardinality(ObsWith(v))

\* C25 witness: two attempts have returned with the same label values, and
\* both metrics count 2 for them.
C25_Witness ==
    \E a, b \in DOMAIN attempts :
        /\ a # b
        /\ attempts[a].pc = "Done" /\ attempts[b].pc = "Done"
        /\ attempts[a].incs = attempts[b].incs
        /\ RequestsTotal[attempts[a].incs[1]] = 2
        /\ RequestDuration[attempts[a].obs[1]] = 2

\* C26: while main has not yet called metrics.New no runner has been started
\* and no attempt exists, and no step taken after metrics.New has returned
\* (starting a runner, building a transport, starting the ticker, a tick, any
\* step of any attempt) changes Metrics.LabelKeys.
C26_LabelKeysFixedAfterNew ==
    [][/\ mainPc = "New" =>
             /\ attempts = <<>>
             /\ \A k \in DOMAIN runner : runner[k].pc = "NotStarted"
       /\ mainPc # "New" => LabelKeys' = LabelKeys]_vars

\* C26 witness: two proxies with different label sets have both returned
\* attempts, and the schema is still the sorted union metrics.New computed.
C26_Witness ==
    /\ cfg.Proxies = <<P_us, P_eu>>
    /\ mainPc = "Select"
    /\ LabelKeys = <<"region", "tier">>
    /\ \E a, b \in DOMAIN attempts :
           /\ attempts[a].proxy = 1 /\ attempts[a].pc = "Done"
           /\ attempts[b].proxy = 2 /\ attempts[b].pc = "Done"

\* The sum of metric's counts over the label vectors in S
RECURSIVE SumOver(_, _)
SumOver(metric, S) ==
    IF S = {} THEN 0
    ELSE LET v == CHOOSE x \in S : TRUE
         IN  metric[v] + SumOver(metric, S \ {v})

\* The samples metric holds for proxy k, over all its other label values
ProxyTotal(metric, k) ==
    SumOver(metric, {v \in DOMAIN metric : v[1] = "proxy_" \o ToString(k)})

\* C27: for each runner, observations recorded for its proxy <= increments
\* of requests_total for its proxy, summed over all status and error values,
\* <= attempts it has started; and the three are equal whenever every attempt
\* it has started has returned.
C27_ObservedIncrementedStarted ==
    \A k \in DOMAIN runner :
        /\ ProxyTotal(RequestDuration, k) <= ProxyTotal(RequestsTotal, k)
        /\ ProxyTotal(RequestsTotal, k) <= runner[k].started
        /\ (\A a \in AttemptsOf(k) : attempts[a].pc = "Done")
               => /\ ProxyTotal(RequestDuration, k) = runner[k].started
                  /\ ProxyTotal(RequestsTotal, k) = runner[k].started

\* C27 witness: a runner has started two attempts, both have returned with
\* different outcomes, and both metrics hold two samples for its proxy.
C27_Witness ==
    \E k \in DOMAIN runner :
        /\ runner[k].started = 2
        /\ \A a \in AttemptsOf(k) : attempts[a].pc = "Done"
        /\ \E a, b \in AttemptsOf(k) : attempts[a].incs # attempts[b].incs
        /\ ProxyTotal(RequestsTotal, k) = 2
        /\ ProxyTotal(RequestDuration, k) = 2

\* C28 as claimed: the label-name lists metrics.New registers hold no name
\* twice, whatever custom label keys the proxies define, and metrics.New
\* does not fail.
C28_AsClaimed ==
    mainPc # "New" =>
        /\ Cardinality({requestsLabels[i] : i \in DOMAIN requestsLabels}) = Len(requestsLabels)
        /\ Cardinality({durationLabels[i] : i \in DOMAIN durationLabels}) = Len(durationLabels)
        /\ mainPc # "Panicked"

\* The configured proxies for which proxy.CreateTransport returns no error
BuildableProxies ==
    {p \in UNION {{l[i] : i \in DOMAIN l} : l \in ProxyLists} :
        CreateTransport(Chars(p.Protocol), Chars(p.Proxy))[2] = NoError}

TransportBuilds(k) == cfg.Proxies[k] \in BuildableProxies

\* C29: a runner that has started an attempt or has a sample in either metric
\* is in its loop and its transport was built without error; a runner whose
\* build failed has no attempt and no sample; and a runner that has processed
\* ticks fired its initial attempt before them.
C29_NothingBeforeTransport ==
    \A k \in DOMAIN runner :
        /\ (\/ AttemptsOf(k) # {}
            \/ runner[k].started > 0
            \/ ProxyTotal(RequestsTotal, k) > 0
            \/ ProxyTotal(RequestDuration, k) > 0)
               => (runner[k].pc = "Loop" /\ TransportBuilds(k))
        /\ runner[k].pc = "Failed"
               => /\ ~TransportBuilds(k)
                  /\ AttemptsOf(k) = {}
                  /\ ProxyTotal(RequestsTotal, k) = 0
                  /\ ProxyTotal(RequestDuration, k) = 0
        /\ runner[k].ticks > 0 => runner[k].started = runner[k].ticks + 1

\* C29 witness: the build for the second proxy has failed; the first proxy
\* has a returned attempt, the second has no attempt and no sample.
C29_Witness ==
    /\ Len(cfg.Proxies) = 2
    /\ runner[2].pc = "Failed"
    /\ \E a \in AttemptsOf(1) : attempts[a].pc = "Done"
    /\ AttemptsOf(2) = {}
    /\ ProxyTotal(RequestsTotal, 2) = 0
    /\ ProxyTotal(RequestDuration, 2) = 0

\* C30 as claimed: whatever request_interval_ms the configuration holds, a
\* runner whose transport was built and which has gone past the start of its
\* ticker is in its loop, has fired its initial attempt, and has not brought
\* the process down.
C30_AsClaimed ==
    \A k \in DOMAIN runner :
        (TransportBuilds(k) /\ runner[k].pc \notin {"NotStarted", "CreateTransport", "NewTicker"})
            => /\ runner[k].pc = "Loop"
               /\ runner[k].started >= 1
               /\ process # "panicked"

=============================================================================
